---- MODULE Spec2Model ----
\* Model of get_game_descriptions.py: fetch one page, split it at the puzzle
\* marker, slice a name and a description out of every segment and print them
\* as an array literal into descriptions.h.
\* Strings are sequences of one-character strings; indices of the string
\* operators are 0-based as in Python, -1 meaning "not found".
EXTENDS Integers, Sequences, FiniteSets, TLC

VARIABLES
    remote,     \* text served at the URL (environment)
    file,       \* content of descriptions.h, or NoFile when it does not exist
    prev,       \* content of descriptions.h before the run (never changes)
    pc,         \* position of the script
    page,       \* line 3
    puzzles,    \* line 4
    f,          \* the file object of the with statement: "unopened", "open", "closed"
    idx,        \* 1-based position in puzzles of the for loop (puzzles[1:] starts at 2)
    name,       \* line 9
    desc,       \* lines 10-11
    entries,    \* the (name, desc) pairs handed to print on line 14, in order
    error,      \* the exception that ended the run, "none" while there is none
    fetches,    \* number of urlopen calls made
    opens       \* number of open calls made

vars == <<remote, file, prev, pc, page, puzzles, f, idx, name, desc, entries,
          error, fetches, opens>>

----------------------------------------------------------------------------
\* String literals of the script

MARKER == <<"<", "s", "p", "a", "n", " ", "c", "l", "a", "s", "s", "=", "\"", "p", "u", "z", "z", "l", "e", "\"", ">">>
TR == <<"<", "t", "r", ">">>
HEADER == <<"N", "S", "S", "t", "r", "i", "n", "g", " ", "*", "G", "a", "m", "e", "D", "e", "s", "c", "r", "i", "p", "t", "i", "o", "n", "s", "[", "]", "[", "2", "]", " ", "=", " ", "{">>
TDEND == <<"<", "/", "t", "d", ">">>
CODEGT == <<"<", "c", "o", "d", "e", ">", "&", "g", "t", ";", "<", "/", "c", "o", "d", "e", ">">>
FMT_HEAD == <<" ", " ", " ", " ", "{", "@", "\"">>
FMT_MID == <<"\"", ",", " ", "@", "\"">>
FMT_TAIL == <<"\"", "}", ",">>
FOOTER == <<"}", ";">>
GT == <<">">>
LT == <<"<">>
QUOTE == <<"\"">>
NL == <<"\n">>
SP == <<" ">>

\* Characters str.rstrip() removes (those of them the inputs use)
Whitespace == {" ", "\n", "\t", "\r"}

\* The state of a file that does not exist: no sequence of characters equals it
NoFile == <<"absent">>

----------------------------------------------------------------------------
\* Python string operations

Min(a, b) == IF a < b THEN a ELSE b

\* sub occurs in s at 0-based position i
OccursAt(s, sub, i) ==
    /\ i >= 0
    /\ i + Len(sub) <= Len(s)
    /\ \A k \in 1..Len(sub) : s[i + k] = sub[k]

\* str.find(sub, start): lowest position >= start, -1 when there is none
\* (str.index raises ValueError exactly when this is -1)
Find(s, sub, start) ==
    LET hits == {i \in start..(Len(s) - Len(sub)) : OccursAt(s, sub, i)}
    IN  IF hits = {} THEN -1
        ELSE CHOOSE i \in hits : \A j \in hits : i <= j

\* sub in s
Contains(s, sub) == Find(s, sub, 0) # -1

\* s[a:b] for a, b >= 0
Slice(s, a, b) ==
    LET lo == Min(a, Len(s))
        hi == Min(b, Len(s))
    IN  IF lo >= hi THEN <<>> ELSE SubSeq(s, lo + 1, hi)

\* s.split(sep)
RECURSIVE Split(_, _)
Split(s, sep) ==
    LET i == Find(s, sep, 0)
    IN  IF i = -1 THEN <<s>>
        ELSE <<Slice(s, 0, i)>> \o Split(Slice(s, i + Len(sep), Len(s)), sep)

\* s.replace(old, new)
RECURSIVE Replace(_, _, _)
Replace(s, old, new) ==
    LET i == Find(s, old, 0)
    IN  IF i = -1 THEN s
        ELSE Slice(s, 0, i) \o new
             \o Replace(Slice(s, i + Len(old), Len(s)), old, new)

\* s.rstrip()
RECURSIVE RStrip(_)
RStrip(s) ==
    IF s = <<>> \/ s[Len(s)] \notin Whitespace THEN s
    ELSE RStrip(SubSeq(s, 1, Len(s) - 1))

\* '    {{@"{}", @"{}"}},'.format(n, d)
Format(n, d) == FMT_HEAD \o n \o FMT_MID \o d \o FMT_TAIL

\* print(s, file=f): s and a newline are appended to the file
WriteLine(content, s) == content \o s \o NL

----------------------------------------------------------------------------
\* Inputs: the pages the URL may serve and the earlier content of descriptions.h

\* Largest number of markers in a page
MaxPuzzles == 2

\* r[1] of a segment: the text the name is sliced from
N_Plain == <<"<", "t", "d", ">", "N", "e", "t", "<", "/", "t", "d", ">">>
N_Quote == <<">", "a", "\"", "b", "<">>
N_Inverted == <<"a", "<", "b", ">">>
N_NoGt == <<"N", "e", "t">>
N_NoLt == <<"<", "b", ">">>

\* r[4] of a segment: the text the description is sliced from
D_Full == <<"<", "t", "d", ">", "a", "\n", "b", " ", "<", "c", "o", "d", "e", ">", "&", "g", "t", ";", "<", "/", "c", "o", "d", "e", ">", " ", "\t", "\n", "<", "/", "t", "d", ">">>
D_Shifted == <<"<", "/", "t", "d", ">", "x", "<", "/", "t", "d", ">">>
D_Inverted == <<"a", "b", "<", "/", "t", "d", ">">>
D_Tag == <<">", "a", "<", "b", ">", "c", "<", "/", "t", "d", ">">>
D_Quote == <<">", "a", "\"", "c", "<", "/", "t", "d", ">">>
D_EarlyEnd == <<"d", "<", "/", "t", "d", ">">>
D_NoGt == <<"a", "b", "c">>
D_NoEnd == <<">", "d">>

\* The parts of a segment the script never looks at
R0 == <<"a">>
R2 == <<>>
R3 == <<"b">>
R5 == <<"c">>

\* A segment with four <tr>: r = [R0, n, R2, R3, d]
Seg(n, d) == R0 \o TR \o n \o TR \o R2 \o TR \o R3 \o TR \o d

\* Segments on which lines 8-13 raise nothing: the expected markup, a fifth
\* <tr> after slices taken at the wrong places, and two slices that end
\* before they start
GoodSegments ==
    { Seg(N_Plain, D_Full),
      Seg(N_Quote, D_Shifted) \o TR \o R5,
      Seg(N_Inverted, D_Inverted) }

\* Segments that trip an assertion
AssertSegments == { Seg(N_Plain, D_Tag), Seg(N_Inverted, D_Quote) }

\* Segments on which a lookup fails
LookupSegments ==
    { Seg(N_NoGt, D_Full),
      Seg(N_NoLt, D_Full),
      Seg(N_Plain, D_EarlyEnd),
      Seg(N_Plain, D_NoEnd),
      Seg(N_Plain, D_NoGt),
      R0 \o TR \o N_NoGt }

\* Segments with fewer <tr> than the script indexes
ShortSegments ==
    { R0,
      R0 \o TR \o N_Plain \o TR \o R2 \o TR \o R3 }

\* The text after one marker, up to the next marker or the end of the page
Segments ==
    GoodSegments \cup AssertSegments \cup LookupSegments \cup ShortSegments

\* Text before the first marker; the second one has the shape of a segment
PrefixEntry == <<"x", "<", "t", "r", ">", ">", "P", "<", "<", "t", "r", ">", "<", "t", "r", ">", "<", "t", "r", ">", ">", "q", "<", "/", "t", "d", ">">>
Prefixes == {<<>>, PrefixEntry}

RECURSIVE BuildPage(_, _)
BuildPage(pre, segs) ==
    IF segs = <<>> THEN pre
    ELSE BuildPage(pre \o MARKER \o Head(segs), Tail(segs))

Pages ==
    UNION { {BuildPage(pre, segs) : pre \in Prefixes, segs \in [1..n -> Segments]}
            : n \in 0..MaxPuzzles }

OldContent == <<"o", "l", "d", "\n">>
PrevContents == {NoFile, OldContent}

\* Exceptions of urlopen() and decode()
FetchErrors == {"URLError", "UnicodeDecodeError"}

----------------------------------------------------------------------------
\* Lines 8-13 for one segment

\* Variant: "<" is searched from index 0
NameEnd_FromStart(r1) == Find(r1, LT, 0)

\* r[1].index(">") and r[1].index("<", 1)
NameStart(r1) == Find(r1, GT, 0)
NameEnd(r1) == Find(r1, LT, 1)

\* r[4].index(">") and r[4].index("</td>", 2)
DescStart(r4) == Find(r4, GT, 0)
DescEnd(r4) == Find(r4, TDEND, 2)

\* Variant: a failed lookup is not an error (str.find for str.index)
NameError_NoValueError(r) ==
    IF Len(r) < 2 THEN "IndexError" ELSE "none"

\* The exception line 9 raises on r, "none" when it assigns name
NameError(r) ==
    IF Len(r) < 2 THEN "IndexError"
    ELSE IF NameStart(r[2]) = -1 \/ NameEnd(r[2]) = -1 THEN "ValueError"
    ELSE "none"

\* name of line 9
NameOf(r) == Slice(r[2], NameStart(r[2]) + 1, NameEnd(r[2]))

\* The exception line 10 raises on r, "none" when it assigns desc
DescError(r) ==
    IF Len(r) < 5 THEN "IndexError"
    ELSE IF DescStart(r[5]) = -1 \/ DescEnd(r[5]) = -1 THEN "ValueError"
    ELSE "none"

\* Variant: no rstrip()
DescSliced_NoStrip(r) ==
    Replace(Slice(r[5], DescStart(r[5]) + 1, DescEnd(r[5])), NL, SP)

\* desc of line 10
DescSliced(r) ==
    RStrip(Replace(Slice(r[5], DescStart(r[5]) + 1, DescEnd(r[5])), NL, SP))

\* desc of line 11
DescOf(r) == Replace(DescSliced(r), CODEGT, GT)

\* Variant: only the first assertion is made
AssertError_OnlyLt(d) ==
    IF Contains(d, LT) THEN "AssertionError" ELSE "none"

\* The assertions of lines 12-13
AssertError(d) ==
    IF Contains(d, LT) \/ Contains(d, QUOTE) THEN "AssertionError" ELSE "none"

\* The exception lines 8-13 raise on segment p, "none" when line 14 is reached
BodyError(p) ==
    LET r == Split(p, TR)
    IN  IF NameError(r) # "none" THEN NameError(r)
        ELSE IF DescError(r) # "none" THEN DescError(r)
        ELSE AssertError(DescOf(r))

\* The slice of puzzles the for loop of line 7 starts at: puzzles[1:]
FirstPuzzle == 2

----------------------------------------------------------------------------
\* The script

Init ==
    /\ remote \in Pages
    /\ prev \in PrevContents
    /\ file = prev
    /\ pc = "fetch"
    /\ page = <<>>
    /\ puzzles = <<>>
    /\ f = "unopened"
    /\ idx = 0
    /\ name = <<>>
    /\ desc = <<>>
    /\ entries = <<>>
    /\ error = "none"
    /\ fetches = 0
    /\ opens = 0

\* Line 3: the page is fetched and decoded
Fetch ==
    /\ pc = "fetch"
    /\ page' = remote
    /\ fetches' = fetches + 1
    /\ pc' = "split"
    /\ UNCHANGED <<remote, file, prev, puzzles, f, idx, name, desc, entries,
                   error, opens>>

\* Variant: the file is opened before the page is fetched
FetchFail_AfterOpen ==
    /\ pc = "fetch"
    /\ \E e \in FetchErrors : error' = e
    /\ fetches' = fetches + 1
    /\ file' = <<>>
    /\ pc' = "aborted"
    /\ UNCHANGED <<remote, prev, page, puzzles, f, idx, name, desc, entries,
                   opens>>

\* Line 3: urlopen, read or decode raises; the script ends
FetchFail ==
    /\ pc = "fetch"
    /\ \E e \in FetchErrors : error' = e
    /\ fetches' = fetches + 1
    /\ pc' = "aborted"
    /\ UNCHANGED <<remote, file, prev, page, puzzles, f, idx, name, desc,
                   entries, opens>>

\* Line 4
SplitPage ==
    /\ pc = "split"
    /\ puzzles' = Split(page, MARKER)
    /\ pc' = "open"
    /\ UNCHANGED <<remote, file, prev, page, f, idx, name, desc, entries,
                   error, fetches, opens>>

\* Variant: the file is opened for appending
OpenFile_Append ==
    /\ pc = "open"
    /\ file' = IF file = NoFile THEN <<>> ELSE file
    /\ f' = "open"
    /\ opens' = opens + 1
    /\ pc' = "header"
    /\ UNCHANGED <<remote, prev, page, puzzles, idx, name, desc, entries,
                   error, fetches>>

\* Line 5: open(..., "w") creates or truncates the file
OpenFile ==
    /\ pc = "open"
    /\ file' = <<>>
    /\ f' = "open"
    /\ opens' = opens + 1
    /\ pc' = "header"
    /\ UNCHANGED <<remote, prev, page, puzzles, idx, name, desc, entries,
                   error, fetches>>

\* Variant: the loop runs over puzzles instead of puzzles[1:]
WriteHeader_AllPuzzles ==
    /\ pc = "header"
    /\ file' = WriteLine(file, HEADER)
    /\ idx' = FirstPuzzle - 1
    /\ pc' = "loop"
    /\ UNCHANGED <<remote, prev, page, puzzles, f, name, desc, entries,
                   error, fetches, opens>>

\* Line 6; the for loop of line 7 is entered
WriteHeader ==
    /\ pc = "header"
    /\ file' = WriteLine(file, HEADER)
    /\ idx' = FirstPuzzle
    /\ pc' = "loop"
    /\ UNCHANGED <<remote, prev, page, puzzles, f, name, desc, entries,
                   error, fetches, opens>>

\* Variant: the page is fetched again in every iteration
Iterate_Refetch ==
    /\ pc = "loop"
    /\ idx <= Len(puzzles)
    /\ BodyError(puzzles[idx]) = "none"
    /\ LET r == Split(puzzles[idx], TR)
       IN  /\ name' = NameOf(r)
           /\ desc' = DescOf(r)
           /\ file' = WriteLine(file, Format(NameOf(r), DescOf(r)))
           /\ entries' = Append(entries, <<NameOf(r), DescOf(r)>>)
    /\ idx' = idx + 1
    /\ fetches' = fetches + 1
    /\ UNCHANGED <<remote, prev, pc, page, puzzles, f, error, opens>>

\* Lines 7-14: one iteration that reaches the print of line 14
Iterate ==
    /\ pc = "loop"
    /\ idx <= Len(puzzles)
    /\ BodyError(puzzles[idx]) = "none"
    /\ LET r == Split(puzzles[idx], TR)
       IN  /\ name' = NameOf(r)
           /\ desc' = DescOf(r)
           /\ file' = WriteLine(file, Format(NameOf(r), DescOf(r)))
           /\ entries' = Append(entries, <<NameOf(r), DescOf(r)>>)
    /\ idx' = idx + 1
    /\ UNCHANGED <<remote, prev, pc, page, puzzles, f, error, fetches, opens>>

\* Variant: the closing line is printed on the way out of an exception
Raise_WithFooter ==
    /\ pc = "loop"
    /\ idx <= Len(puzzles)
    /\ BodyError(puzzles[idx]) # "none"
    /\ LET r == Split(puzzles[idx], TR)
       IN  /\ name' = IF NameError(r) = "none" THEN NameOf(r) ELSE name
           /\ desc' = IF NameError(r) = "none" /\ DescError(r) = "none"
                      THEN DescOf(r) ELSE desc
    /\ error' = BodyError(puzzles[idx])
    /\ file' = WriteLine(file, FOOTER)
    /\ f' = "closed"
    /\ pc' = "aborted"
    /\ UNCHANGED <<remote, prev, page, puzzles, idx, entries, fetches, opens>>

\* Lines 7-13: one iteration that raises; the with statement closes the file
\* and the script ends
Raise ==
    /\ pc = "loop"
    /\ idx <= Len(puzzles)
    /\ BodyError(puzzles[idx]) # "none"
    /\ LET r == Split(puzzles[idx], TR)
       IN  /\ name' = IF NameError(r) = "none" THEN NameOf(r) ELSE name
           /\ desc' = IF NameError(r) = "none" /\ DescError(r) = "none"
                      THEN DescOf(r) ELSE desc
    /\ error' = BodyError(puzzles[idx])
    /\ f' = "closed"
    /\ pc' = "aborted"
    /\ UNCHANGED <<remote, file, prev, page, puzzles, idx, entries, fetches,
                   opens>>

\* Line 15, after the last iteration; the with statement closes the file
WriteFooter ==
    /\ pc = "loop"
    /\ idx > Len(puzzles)
    /\ file' = WriteLine(file, FOOTER)
    /\ f' = "closed"
    /\ pc' = "done"
    /\ UNCHANGED <<remote, prev, page, puzzles, idx, name, desc, entries,
                   error, fetches, opens>>

Next ==
    \/ Fetch
    \/ FetchFail
    \/ SplitPage
    \/ OpenFile
    \/ WriteHeader
    \/ Iterate
    \/ Raise
    \/ WriteFooter

Spec == Init /\ [][Next]_vars

TypeOK ==
    /\ pc \in {"fetch", "split", "open", "header", "loop", "done", "aborted"}
    /\ f \in {"unopened", "open", "closed"}
    /\ error \in FetchErrors \cup {"none", "IndexError", "ValueError", "AssertionError"}
    /\ idx \in 0..(MaxPuzzles + 2)

----------------------------------------------------------------------------
\* Vocabulary of the properties

StartsWith(s, pre) == OccursAt(s, pre, 0)
EndsWith(s, suf) == OccursAt(s, suf, Len(s) - Len(suf))

\* The header line followed by one line per pair of es
RECURSIVE EntryLines(_)
EntryLines(es) ==
    IF es = <<>> THEN <<>>
    ELSE FMT_HEAD \o Head(es)[1] \o FMT_MID \o Head(es)[2] \o FMT_TAIL \o NL
         \o EntryLines(Tail(es))
Rendered(es) == HEADER \o NL \o EntryLines(es)

\* The run was ended by an exception raised inside the for loop
AbortedInLoop == pc = "aborted" /\ f = "closed"

\* descriptions.h exists, starts with the header line and lacks the closing line
PartialOutput ==
    /\ file # NoFile
    /\ StartsWith(file, HEADER \o NL)
    /\ ~EndsWith(file, FOOTER \o NL)

Clean(s) == \A k \in 1..Len(s) : s[k] # "<" /\ s[k] # "\""

\* 0-based positions of the markers in pg
MarkerPositions(pg) == {i \in 0..Len(pg) : OccursAt(pg, MARKER, i)}
\* The texts that follow the markers of pg, each up to the next marker or the
\* end of pg, in page order
MarkerSegments(pg) ==
    LET pos == MarkerPositions(pg)
        n == Cardinality(pos)
        kth == [k \in 1..n |->
                   CHOOSE i \in pos : Cardinality({j \in pos : j < i}) = k - 1]
    IN  [k \in 1..n |->
            LET from == kth[k] + Len(MARKER)
                to == IF k < n THEN kth[k + 1] ELSE Len(pg)
            IN  [m \in 1..(to - from) |-> pg[from + m]]]

\* Shape of a segment, read off its characters
TrCount(p) == Cardinality({i \in 0..Len(p) : OccursAt(p, TR, i)})
HasGt(s) == \E k \in 1..Len(s) : s[k] = ">"
HasLtAfterFirst(s) == \E k \in 2..Len(s) : s[k] = "<"
HasTdEndAfterSecond(s) == \E i \in 2..Len(s) : OccursAt(s, TDEND, i)
NameLookupsOk(p) ==
    /\ TrCount(p) >= 1
    /\ HasGt(Split(p, TR)[2])
    /\ HasLtAfterFirst(Split(p, TR)[2])
DescLookupsOk(p) ==
    /\ TrCount(p) >= 4
    /\ HasGt(Split(p, TR)[5])
    /\ HasTdEndAfterSecond(Split(p, TR)[5])

\* What a run on page pg leaves behind, read off pg alone: the first marker
\* whose segment raises (one more than the number of markers when none does),
\* the exception, the pairs printed before it and the content of the file
ExpectedRun(pg) ==
    LET segs == MarkerSegments(pg)
        n == Len(segs)
        errs == [k \in 1..n |-> BodyError(segs[k])]
        failing == {k \in 1..n : errs[k] # "none"}
        first == IF failing = {} THEN n + 1
                 ELSE CHOOSE k \in failing : \A j \in failing : k <= j
        pairs == [k \in 1..(first - 1) |->
                     <<NameOf(Split(segs[k], TR)), DescOf(Split(segs[k], TR))>>]
    IN  [ first |-> first,
          error |-> IF first > n THEN "none" ELSE errs[first],
          file |-> IF first > n THEN Rendered(pairs) \o FOOTER \o NL
                   ELSE Rendered(pairs) ]

\* Slicing, newline replacement and right-strip, character by character
\* (positions are 0-based; a position that does not exist is -1)
FirstChar(s, c, from) ==
    LET hits == {i \in from..(Len(s) - 1) : s[i + 1] = c}
    IN  IF hits = {} THEN -1 ELSE CHOOSE i \in hits : \A j \in hits : i <= j
FirstTdEnd(s) ==
    LET hits == {i \in 2..Len(s) : OccursAt(s, TDEND, i)}
    IN  IF hits = {} THEN -1 ELSE CHOOSE i \in hits : \A j \in hits : i <= j
Between(s, a, b) == [m \in 1..(b - a) |-> s[a + m]]
NewlinesAsSpaces(s) == [k \in 1..Len(s) |-> IF s[k] = "\n" THEN " " ELSE s[k]]
Stripped(s) ==
    LET n == CHOOSE n \in 0..Len(s) :
                 /\ n = 0 \/ s[n] \notin Whitespace
                 /\ \A m \in (n + 1)..Len(s) : s[m] \in Whitespace
    IN  [k \in 1..n |-> s[k]]

----------------------------------------------------------------------------
\* Properties

\* C1 (as stated): when one of the two assertions aborts the run there is no
\* partial output: descriptions.h does not hold the header line or earlier
\* entries without the closing line.
C1_NoPartialOutput ==
    (AbortedInLoop /\ error = "AssertionError") => ~PartialOutput

\* C1 (amended): when one of the two assertions aborts the run the output is
\* partial: descriptions.h holds the header line and the entries of all
\* earlier puzzles, and no closing line.
C1_PartialOutputOnAbort ==
    (AbortedInLoop /\ error = "AssertionError") =>
        /\ PartialOutput
        /\ file = Rendered(entries)
        /\ Len(entries) = idx - FirstPuzzle

C1_Witness ==
    /\ AbortedInLoop
    /\ error = "AssertionError"
    /\ Len(entries) >= 1
    /\ PartialOutput

\* C2: every description in the output file contains neither < nor "; the
\* check is made on the description after the <code>&gt;</code> substitution
\* and before the print, and when it fails the run ends without that entry,
\* any later entry or the closing line.
C2_DescriptionsAsserted ==
    /\ \A k \in 1..Len(entries) : Clean(entries[k][2])
    /\ pc = "loop" => file = Rendered(entries)
    /\ pc = "done" => file = Rendered(entries) \o FOOTER \o NL
    /\ (AbortedInLoop /\ error = "AssertionError") =>
           /\ desc = Replace(desc, CODEGT, GT)
           /\ ~Clean(desc)
           /\ file = Rendered(entries)
           /\ Len(entries) = idx - FirstPuzzle
           /\ idx <= Len(puzzles)

\* An entry whose description was clean only after the substitution was
\* written, and a later description tripped an assertion
C2_Witness ==
    /\ AbortedInLoop
    /\ error = "AssertionError"
    /\ \E k \in 1..Len(entries) :
           /\ Contains(DescSliced(Split(puzzles[FirstPuzzle + k - 1], TR)), LT)
           /\ Contains(entries[k][2], GT)

\* C3: both strings of every pair written to the output, the name like the
\* description, contain neither < nor ".
C3_NamesAndDescriptionsClean ==
    \A k \in 1..Len(entries) : Clean(entries[k][1]) /\ Clean(entries[k][2])

\* C4 (as stated): extraction fails only through the two assertions; a
\* segment of changed shape never ends the run by another error.
C4_OnlyAssertionsAbort == AbortedInLoop => error = "AssertionError"

\* C4 (amended): a run ends inside the loop by an AssertionError, by an
\* IndexError (a segment without <tr>, or with fewer than four <tr> once the
\* name lookups succeeded) or by a ValueError (a lookup of ">", of "<" from
\* index 1 or of "</td>" from index 2 finds nothing); only segments on which
\* every lookup succeeds are sliced silently and let the run continue.
C4_AbortCauses ==
    /\ \A k \in FirstPuzzle..(idx - 1) :
           NameLookupsOk(puzzles[k]) /\ DescLookupsOk(puzzles[k])
    /\ AbortedInLoop =>
           LET p == puzzles[idx]
           IN  /\ error \in {"IndexError", "ValueError", "AssertionError"}
               /\ error = "IndexError" <=>
                      \/ TrCount(p) < 1
                      \/ NameLookupsOk(p) /\ TrCount(p) < 4
               /\ error = "ValueError" <=>
                      \/ TrCount(p) >= 1 /\ ~NameLookupsOk(p)
                      \/ NameLookupsOk(p) /\ TrCount(p) >= 4 /\ ~DescLookupsOk(p)
               /\ error = "AssertionError" <=>
                      NameLookupsOk(p) /\ DescLookupsOk(p)

\* A wrongly sliced entry was written and a later segment raised IndexError
C4_Witness ==
    /\ AbortedInLoop
    /\ error = "IndexError"
    /\ \E k \in 1..Len(entries) : entries[k][2] = <<"x">>

\* C5: on a run that completes, the file is the header line, one entry per
\* marker of the page in page order, and the closing line; text before the
\* first marker gives no entry.
C5_OutputShape ==
    pc = "done" =>
        LET segs == MarkerSegments(page)
        IN  /\ Len(entries) = Len(segs)
            /\ \A k \in 1..Len(segs) :
                   LET r == Split(segs[k], TR)
                   IN  entries[k] = <<NameOf(r), DescOf(r)>>
            /\ file = HEADER \o NL \o EntryLines(entries) \o FOOTER \o NL

\* A completed run on a page with text before the first of two markers
C5_Witness ==
    /\ pc = "done"
    /\ Len(entries) = 2
    /\ 0 \notin MarkerPositions(page)
    /\ page # <<>>

\* C6: what a run leaves in descriptions.h, and the puzzle it aborts at, are
\* determined by the page text alone, whatever the file held before.
C6_OutputDependsOnPageOnly ==
    (pc = "done" \/ AbortedInLoop) =>
        LET run == ExpectedRun(page)
        IN  /\ file = run.file
            /\ error = run.error
            /\ idx = run.first + 1

\* A completed run that printed entries over an earlier file
C6_Witness ==
    /\ pc = "done"
    /\ prev = OldContent
    /\ Len(entries) >= 1

\* C7: one fetch and one open per run, the fetch first; no fetch follows the
\* open or a write, however many puzzles the page holds.
C7_OneFetchThenOneOpen ==
    /\ fetches <= 1
    /\ opens <= 1
    /\ (pc = "fetch") <=> (fetches = 0)
    /\ (f # "unopened") <=> (opens = 1)
    /\ opens = 1 => fetches = 1 /\ page = remote
    /\ (pc \in {"header", "loop", "done"} \/ AbortedInLoop) =>
           fetches = 1 /\ opens = 1

\* A completed run over a page of at least two puzzles
C7_Witness ==
    /\ pc = "done"
    /\ Len(entries) >= 2
    /\ fetches = 1
    /\ opens = 1

\* C8: the name written is r[1] from after its first ">" up to its first "<"
\* at index >= 1; the description written is r[4] from after its first ">"
\* up to its first "</td>" at index >= 2, with newlines replaced by spaces,
\* then right-stripped, then <code>&gt;</code> replaced by ">". A slice whose
\* end is not after its start is empty and does not end the run.
C8_Slices ==
    /\ \A k \in 1..Len(entries) :
           LET r == Split(puzzles[FirstPuzzle + k - 1], TR)
               r1 == r[2]
               r4 == r[5]
           IN  /\ entries[k][1] =
                      Between(r1, FirstChar(r1, ">", 0) + 1, FirstChar(r1, "<", 1))
               /\ entries[k][2] =
                      Replace(Stripped(NewlinesAsSpaces(
                                  Between(r4, FirstChar(r4, ">", 0) + 1, FirstTdEnd(r4)))),
                              CODEGT, GT)
    /\ (AbortedInLoop /\ NameLookupsOk(puzzles[idx]) /\ DescLookupsOk(puzzles[idx])) =>
           LET r4 == Split(puzzles[idx], TR)[5]
           IN  /\ error = "AssertionError"
               /\ FirstTdEnd(r4) > FirstChar(r4, ">", 0) + 1

\* An entry with an empty name, sliced from an r[1] whose "<" precedes its ">"
C8_Witness ==
    \E k \in 1..Len(entries) :
        LET r1 == Split(puzzles[FirstPuzzle + k - 1], TR)[2]
        IN  /\ entries[k][1] = <<>>
            /\ FirstChar(r1, "<", 1) < FirstChar(r1, ">", 0)

\* C9: a failed fetch or decode ends the run before descriptions.h is opened,
\* the file as it was; after a successful fetch the earlier content is gone
\* before the first puzzle is extracted.
C9_FetchFailureLeavesFile ==
    /\ pc \in {"fetch", "split", "open"} => file = prev /\ f = "unopened"
    /\ error \in FetchErrors =>
           /\ pc = "aborted"
           /\ file = prev
           /\ f = "unopened"
           /\ opens = 0
    /\ (idx >= FirstPuzzle \/ entries # <<>> \/ name # <<>> \/ desc # <<>>) =>
           /\ opens = 1
           /\ file # NoFile
           /\ StartsWith(file, HEADER \o NL)

\* A failed fetch with an earlier file still in place
C9_Witness ==
    /\ error \in FetchErrors
    /\ prev = OldContent
    /\ file = OldContent

\* C10: no description written holds a newline or ends in whitespace.
C10_NoNewlineNoTrailingSpace ==
    \A k \in 1..Len(entries) :
        LET d == entries[k][2]
        IN  /\ \A m \in 1..Len(d) : d[m] # "\n"
            /\ d = <<>> \/ d[Len(d)] \notin Whitespace

\* A description whose slice held a newline and ended in <code>&gt;</code>
\* and whitespace
C10_Witness ==
    \E k \in 1..Len(entries) :
        /\ entries[k][2] = <<"a", " ", "b", " ", ">">>
        /\ EndsWith(DescSliced(Split(puzzles[FirstPuzzle + k - 1], TR)), CODEGT)
        /\ Contains(Split(puzzles[FirstPuzzle + k - 1], TR)[5], NL)

====
